---- MODULE Spec2Model ----
(***************************************************************************)
(* WassersteinNN (src/src/wasserstein_nn.py): the distance matrix, the     *)
(* eta-neighborhood estimate and the error aggregate of a nearest-neighbor *)
(* imputer over a tensor Z of shape (N, T, n, 1) and a mask M of shape     *)
(* (N, T).                                                                 *)
(*                                                                         *)
(* Numbers are extended rationals <<num, den>> in lowest terms, den > 0;   *)
(* den = 0 encodes the IEEE specials: <<0,0>> not-a-number, <<1,0>> +inf,  *)
(* <<-1,0>> -inf.                                                          *)
(***************************************************************************)
EXTENDS Integers, Sequences, FiniteSets, TLC

\* Shape of the tensor and the ranges the inputs are drawn from.
N == 2
T == 2
n == 2
MaxVal == 1
MaxEta == 1
MaxInds == 1

Rows == 0 .. (N - 1)
Cols == 0 .. (T - 1)
Samples == 0 .. (n - 1)
Vals == 0 .. MaxVal
MaskCodes == {0, 1, 2}
NNTypes == {"ii", "uu"}

----------------------------------------------------------------------------
\* Extended rational arithmetic (numpy float semantics on exact values).

NaN == <<0, 0>>
PInf == <<1, 0>>
NInf == <<-1, 0>>

Abs(x) == IF x < 0 THEN -x ELSE x

RECURSIVE GCD(_, _)
GCD(a, b) == IF b = 0 THEN a ELSE GCD(b, a % b)

Norm(nu, de) ==
    LET g == GCD(Abs(nu), de) IN <<nu \div g, de \div g>>

Fin(v) == <<v, 1>>
IsNaN(x) == x = NaN
IsFin(x) == x[2] # 0

\* x + y
Add(x, y) ==
    IF IsNaN(x) \/ IsNaN(y) THEN NaN
    ELSE IF IsFin(x) /\ IsFin(y) THEN Norm(x[1] * y[2] + y[1] * x[2], x[2] * y[2])
    ELSE IF IsFin(x) THEN y
    ELSE IF IsFin(y) THEN x
    ELSE IF x = y THEN x ELSE NaN

Neg(x) == IF IsFin(x) THEN <<-x[1], x[2]>> ELSE IF IsNaN(x) THEN NaN ELSE <<-x[1], 0>>

\* x - y
Sub(x, y) == Add(x, Neg(y))

\* x ** 2
Sq(x) ==
    IF IsNaN(x) THEN NaN
    ELSE IF IsFin(x) THEN Norm(x[1] * x[1], x[2] * x[2])
    ELSE PInf

\* x / k for an integer k > 0
DivInt(x, k) == IF IsFin(x) THEN Norm(x[1], x[2] * k) ELSE x

\* x <= y as numpy compares floats: any comparison with not-a-number is false.
Leq(x, y) ==
    IF IsNaN(x) \/ IsNaN(y) THEN FALSE
    ELSE IF IsFin(x) /\ IsFin(y) THEN x[1] * y[2] <= y[1] * x[2]
    ELSE IF IsFin(x) THEN y = PInf
    ELSE IF IsFin(y) THEN x = NInf
    ELSE x = NInf \/ y = PInf

RECURSIVE SumOver(_, _)
SumOver(S, f) ==
    IF S = {} THEN Fin(0)
    ELSE LET k == CHOOSE k \in S : TRUE
         IN Add(f[k], SumOver(S \ {k}, f))

\* np.nanmean of the entries f[k], k \in S: the mean of the entries that are
\* not not-a-number, not-a-number when there is none.
NanMean(S, f) ==
    LET keep == {k \in S : ~IsNaN(f[k])}
    IN IF keep = {} THEN NaN ELSE DivInt(SumOver(keep, f), Cardinality(keep))

\* np.clip(x, a_min=0, a_max=None)
Clip0(x) ==
    IF IsNaN(x) THEN NaN
    ELSE IF Leq(x, Fin(0)) THEN Fin(0) ELSE x

----------------------------------------------------------------------------
\* Inputs.

NanVec == [s \in Samples |-> NaN]
\* The sample vector of a cell: n draws, sorted ascending ("Assume that Y_i and
\* Y_j are sorted").
SampleVecs ==
    {x \in [Samples -> {Fin(v) : v \in Vals}] :
        \A s1, s2 \in Samples : s1 <= s2 => x[s1][1] <= x[s2][1]}
Tensors == [Rows -> [Cols -> SampleVecs]]
Masks == [Rows -> [Cols -> MaskCodes]]
Etas == {Fin(e) : e \in (-1) .. MaxEta} \cup {PInf}
AllInds == {<<i, j>> : i \in Rows, j \in Cols}
IndLists == UNION {[1 .. k -> AllInds] : k \in 0 .. MaxInds}

----------------------------------------------------------------------------
\* distances(self, Z, M)

\* Mutant: only the code 0 is masked, the code 2 counts as observed.
MaskNotOne_OnlyZero(Zc, Mc) ==
    [i \in Rows |-> [t \in Cols |-> IF Mc[i][t] = 0 THEN NanVec ELSE Zc[i][t]]]

\* Z_cp[M != 1] = np.nan
MaskNotOne(Zc, Mc) ==
    [i \in Rows |-> [t \in Cols |-> IF Mc[i][t] # 1 THEN NanVec ELSE Zc[i][t]]]

\* Mutant: Z_cp = Z without the copy, so the masking writes into the caller's Z.
DistancesArrays_Alias(Zc, Mc) == [Z |-> MaskNotOne(Zc, Mc), Z_cp |-> MaskNotOne(Zc, Mc)]

\* Z_cp = Z.copy(); Z_cp[M != 1] = np.nan
\* The two arrays of the call after the masking: the caller's Z and the copy.
DistancesArrays(Zc, Mc) == [Z |-> Zc, Z_cp |-> MaskNotOne(Zc, Mc)]

\* np.nanmean((x - y) ** 2, axis=-1) for two sample vectors
SampleMeanSq(x, y) == NanMean(Samples, [s \in Samples |-> Sq(Sub(x[s], y[s]))])

\* "ii": entry [a, b] compares columns a and b, averaging over samples, then rows.
DiffsII(Zcp) ==
    [a \in Cols |-> [b \in Cols |->
        NanMean(Rows, [i \in Rows |-> SampleMeanSq(Zcp[i][a], Zcp[i][b])])]]

\* "uu": entry [a, b] compares rows a and b, averaging over samples, then columns.
DiffsUU(Zcp) ==
    [a \in Rows |-> [b \in Rows |->
        NanMean(Cols, [t \in Cols |-> SampleMeanSq(Zcp[a][t], Zcp[b][t])])]]

\* diffs = diffs + diffs.T
AddTranspose(D) ==
    [a \in DOMAIN D |-> [b \in DOMAIN D |-> Add(D[a][b], D[b][a])]]

\* diffs = np.clip(diffs, a_min=0, a_max=None)
ClipMatrix(D) == [a \in DOMAIN D |-> [b \in DOMAIN D |-> Clip0(D[a][b])]]

\* Mutant: the diagonal is left as computed.
FillDiagonal_Skipped(D) == D

\* np.fill_diagonal(diffs, np.inf)
FillDiagonal(D) ==
    [a \in DOMAIN D |-> [b \in DOMAIN D |-> IF a = b THEN PInf ELSE D[a][b]]]

\* The matrix distances returns.
DistancesResult(Zc, Mc, nnt) ==
    LET Zcp == DistancesArrays(Zc, Mc).Z_cp
        diffs == IF nnt = "ii" THEN DiffsII(Zcp) ELSE DiffsUU(Zcp)
    IN FillDiagonal(ClipMatrix(AddTranspose(diffs)))

----------------------------------------------------------------------------
\* estimate(self, Z, M, eta, inds, dists, ret_nn=False)

\* Z_cp = Z.copy(); Z_cp[M == 0] = np.nan; Z_cp[M == 2] = np.nan
MaskZeroTwo(Zc, Mc) ==
    [i \in Rows |-> [t \in Cols |->
        IF Mc[i][t] = 0 \/ Mc[i][t] = 2 THEN NanVec ELSE Zc[i][t]]]

EstimateArrays(Zc, Mc) == [Z |-> Zc, Z_cp |-> MaskZeroTwo(Zc, Mc)]

\* neighborhoods = dists <= eta
Neighborhoods(D, e) == [a \in DOMAIN D |-> [b \in DOMAIN D |-> Leq(D[a][b], e)]]

\* t_nn = neighborhoods[j] if self.nn_type == "ii" else neighborhoods[i]
TNN(D, e, nnt, i, j) ==
    IF nnt = "ii" THEN Neighborhoods(D, e)[j] ELSE Neighborhoods(D, e)[i]

\* msk_inp_full = M[i, :] if self.nn_type == "ii" else M[:, j]
MskInpFull(Mc, nnt, i, j) ==
    IF nnt = "ii" THEN [t \in Cols |-> Mc[i][t]] ELSE [r \in Rows |-> Mc[r][j]]

\* neighbors = Z[i, t_nn] if self.nn_type == "ii" else Z[t_nn, j]
\* The gathered sample vectors, keyed by the index they were gathered from.
Neighbors(Zc, nnt, i, j, t_nn) ==
    [k \in {k \in DOMAIN t_nn : t_nn[k]} |->
        IF nnt = "ii" THEN Zc[i][k] ELSE Zc[k][j]]

\* np.nonzero(t_nn & msk_inp_full): the bitwise and of a boolean with a mask
\* code is nonzero exactly when the boolean is set and the code is odd.
ListNeighbors(t_nn, msk) == {k \in DOMAIN t_nn : t_nn[k] /\ msk[k] % 2 = 1}

\* The body of the loop up to the three stores, for the index (i, j).
EstimateBody(Zc, Mc, e, D, nnt, i, j) ==
    LET t_nn == TNN(D, e, nnt, i, j)
        msk_inp_full == MskInpFull(Mc, nnt, i, j)
        neighbors == Neighbors(EstimateArrays(Zc, Mc).Z, nnt, i, j, t_nn)
    IN IF DOMAIN neighbors # {}
       THEN [i |-> i, j |-> j, t_nn |-> t_nn,
             est |-> [s \in Samples |->
                        NanMean(DOMAIN neighbors,
                                [k \in DOMAIN neighbors |-> neighbors[k][s]])],
             nn_count_rc |-> Cardinality(DOMAIN neighbors),
             list_is_none |-> FALSE,
             list_neighbors_rc |-> ListNeighbors(t_nn, msk_inp_full)]
       ELSE [i |-> i, j |-> j, t_nn |-> t_nn,
             est |-> [s \in Samples |-> NInf],
             nn_count_rc |-> 0,
             list_is_none |-> TRUE,
             list_neighbors_rc |-> {}]

\* ests = [[None] * T] * N: a Python list of lists.
NoneTable == [i \in Rows |-> [j \in Cols |-> "None"]]
\* nn_count = np.full([N, T], np.nan)
NanTable == [i \in Rows |-> [j \in Cols |-> NaN]]

NoFrame == [i |-> -1, j |-> -1, t_nn |-> <<>>, est |-> <<>>, nn_count_rc |-> -1,
            list_is_none |-> TRUE, list_neighbors_rc |-> {}]
NoReturn == [kind |-> "none", ests |-> <<>>, nn_count |-> <<>>, list_neighbors |-> <<>>]

\* ests[i, j] = est, with ests a list: a list subscript must be an integer or
\* a slice, so the store of the first index of inds raises TypeError.
ListStoreRaises(ij) == "TypeError"

\* The outcome of a call: the exception it raised ("none" when it returned),
\* the loop's locals when it stopped, and the value it returned.
EstimateOutcome(Zc, Mc, e, ix, D, rnn, nnt) ==
    IF Len(ix) = 0
    THEN [raised |-> "none", frame |-> NoFrame,
          ret |-> IF rnn
                  THEN [kind |-> "tuple", ests |-> NoneTable, nn_count |-> NanTable,
                        list_neighbors |-> NoneTable]
                  ELSE [kind |-> "ests", ests |-> NoneTable, nn_count |-> <<>>,
                        list_neighbors |-> <<>>]]
    ELSE [raised |-> ListStoreRaises(ix[1]),
          frame |-> EstimateBody(Zc, Mc, e, D, nnt, ix[1][1], ix[1][2]),
          ret |-> NoReturn]

----------------------------------------------------------------------------
\* avg_error(self, ests, truth, inds=None)

\* np.nanmean(np.nanmean((ests - truth) ** 2, axis=1), axis=0) for two
\* collections of sample vectors
AvgErrorResult(E, Tr) ==
    NanMean(DOMAIN E, [k \in DOMAIN E |-> SampleMeanSq(E[k], Tr[k])])

----------------------------------------------------------------------------
\* The caller: one instance, its tensor and mask, and the results it holds.

VARIABLES nn_type, Z, M, dists, call, eta, inds, ret_nn, raised, frame, ret, err

vars == <<nn_type, Z, M, dists, call, eta, inds, ret_nn, raised, frame, ret, err>>

HaveDists == DOMAIN dists # {}

Init ==
    /\ nn_type \in NNTypes
    /\ Z \in Tensors
    /\ M \in Masks
    /\ dists = <<>>
    /\ call = "none"
    /\ eta = NaN
    /\ inds = <<>>
    /\ ret_nn = FALSE
    /\ raised = "none"
    /\ frame = NoFrame
    /\ ret = NoReturn
    /\ err = NaN

\* The caller runs the pipeline distances -> estimate -> avg_error and starts
\* over; an uncaught exception ends its run.
Running == raised = "none"

\* dists = self.distances(Z, M)
Distances ==
    /\ Running
    /\ call \in {"none", "avg_error"}
    /\ call' = "distances"
    /\ dists' = DistancesResult(Z, M, nn_type)
    /\ Z' = DistancesArrays(Z, M).Z
    /\ eta' = NaN /\ inds' = <<>> /\ ret_nn' = FALSE
    /\ raised' = "none" /\ frame' = NoFrame /\ ret' = NoReturn /\ err' = NaN
    /\ UNCHANGED <<nn_type, M>>

\* self.estimate(Z, M, eta, inds, dists, ret_nn)
Estimate ==
    /\ Running
    /\ call = "distances"
    /\ \E e \in Etas, ix \in IndLists, rnn \in BOOLEAN :
         \E out \in {EstimateOutcome(Z, M, e, ix, dists, rnn, nn_type)} :
            /\ call' = "estimate"
            /\ eta' = e /\ inds' = ix /\ ret_nn' = rnn
            /\ raised' = out.raised
            /\ frame' = out.frame
            /\ ret' = out.ret
    /\ Z' = EstimateArrays(Z, M).Z
    /\ err' = NaN
    /\ UNCHANGED <<nn_type, M, dists>>

\* self.avg_error(ests, truth): the caller scores the sample vectors of one row
\* of the tensor against those of another.
AvgError ==
    /\ Running
    /\ call = "estimate"
    /\ \E r1 \in Rows, r2 \in Rows :
         LET E == [k \in 1 .. T |-> Z[r1][k - 1]]
             Tr == [k \in 1 .. T |-> Z[r2][k - 1]]
         IN err' = AvgErrorResult(E, Tr)
    /\ call' = "avg_error"
    /\ eta' = NaN /\ inds' = <<>> /\ ret_nn' = FALSE
    /\ raised' = "none" /\ frame' = NoFrame /\ ret' = NoReturn
    /\ UNCHANGED <<nn_type, Z, M, dists>>

\* Between distances and estimate the caller stores other samples in a cell
\* that is not observed (M # 1).
EditUnobserved ==
    /\ Running
    /\ call = "distances"
    /\ \E i \in Rows, t \in Cols, x \in SampleVecs :
         /\ M[i][t] # 1
         /\ Z' = [Z EXCEPT ![i][t] = x]
    /\ UNCHANGED <<nn_type, M, dists, call, eta, inds, ret_nn, raised, frame, ret, err>>

Next == Distances \/ Estimate \/ AvgError \/ EditUnobserved

Spec == Init /\ [][Next]_vars

----------------------------------------------------------------------------
\* What the claims speak of.

\* The index of the neighbor axis a requested index (i, j) stands for.
Target(i, j) == IF nn_type = "ii" THEN j ELSE i

\* The two cells that entries a and b of the neighbor axis have at position k
\* of the orthogonal axis.
CellOf(a, k) == IF nn_type = "ii" THEN Z[k][a] ELSE Z[a][k]
MaskOf(a, k) == IF nn_type = "ii" THEN M[k][a] ELSE M[a][k]
Orthogonal == IF nn_type = "ii" THEN Rows ELSE Cols

\* The positions at which both a and b are observed.
JointlyObserved(a, b) == {k \in Orthogonal : MaskOf(a, k) = 1 /\ MaskOf(b, k) = 1}

SumSq(x, y) == SumOver(Samples, [s \in Samples |-> Sq(Sub(x[s], y[s]))])

\* The mean over the jointly observed positions of the mean over the n samples
\* of the squared difference.
MeanSquaredDifference(a, b) ==
    LET J == JointlyObserved(a, b)
    IN DivInt(SumOver(J, [k \in J |-> SumSq(CellOf(a, k), CellOf(b, k))]),
              n * Cardinality(J))

Requested == call = "estimate" /\ inds # <<>>

\* The mask of the requested cell's row ("ii") or column ("uu").
RequestedMask(k) ==
    IF nn_type = "ii" THEN M[frame.i][k] ELSE M[k][frame.j]
RequestedCell(k) ==
    IF nn_type = "ii" THEN Z[frame.i][k] ELSE Z[k][frame.j]

\* The cells within eta of the requested index that are observed.
Contributing ==
    {k \in DOMAIN dists :
        Leq(dists[Target(frame.i, frame.j)][k], eta) /\ RequestedMask(k) = 1}

\* C1: in both modes every off-diagonal entry of the matrix distances returns,
\* for two entries that share an observed position, is the mean over the
\* jointly observed positions of the mean over the samples of the squared
\* difference (the hand-computed mean itself, not a multiple of it).
C1_OffDiagonalIsMeanSquaredDifference ==
    HaveDists =>
        \A a \in DOMAIN dists, b \in DOMAIN dists :
            (a # b /\ JointlyObserved(a, b) # {})
                => dists[a][b] = MeanSquaredDifference(a, b)

\* C2: the vector estimate computes for a requested index is the elementwise
\* mean over exactly the cells within eta that are observed (M = 1), and it
\* stays the same when other samples are stored in a cell with mask 0 or 2.
C2_EstimateAveragesObservedNeighborsOnly ==
    Requested =>
        /\ Contributing # {} =>
              frame.est = [s \in Samples |->
                              DivInt(SumOver(Contributing,
                                             [k \in Contributing |-> RequestedCell(k)[s]]),
                                     Cardinality(Contributing))]
        /\ \A r \in Rows, t \in Cols, x \in SampleVecs :
              M[r][t] # 1 =>
                  EstimateBody([Z EXCEPT ![r][t] = x], M, eta, dists, nn_type,
                               frame.i, frame.j).est = frame.est

\* C3: when eta is below every distance from the requested index, estimate
\* raises nothing and returns the vector of -inf and the count 0 for it.
C3_EmptyNeighborhoodReturnsSentinel ==
    (Requested /\ ret_nn
        /\ \A k \in DOMAIN dists : ~Leq(dists[Target(inds[1][1], inds[1][2])][k], eta))
    => /\ raised = "none"
       /\ ret.kind = "tuple"
       /\ ret.ests[inds[1][1]][inds[1][2]] = [s \in Samples |-> NInf]
       /\ ret.nn_count[inds[1][1]][inds[1][2]] = Fin(0)

\* C4: the eta-neighborhood estimate computes for a requested index never
\* contains the index itself, whatever eta is.
C4_NeverOwnNeighbor ==
    Requested => ~frame.t_nn[Target(frame.i, frame.j)]

\* C5: the neighbor count estimate computes for a requested index is the
\* number of contributing neighbors, the cells within eta that are observed.
C5_CountIsContributingNeighbors ==
    (Requested /\ ret_nn) => frame.nn_count_rc = Cardinality(Contributing)

\* C6: the matrix distances returns is symmetric (equal values, or both
\* not-a-number) and every diagonal entry is +infinity.
C6_SymmetricInfiniteDiagonal ==
    HaveDists =>
        \A a \in DOMAIN dists, b \in DOMAIN dists :
            /\ dists[a][b] = dists[b][a]
            /\ dists[a][a] = PInf

C6_Witness ==
    /\ call = "distances"
    /\ \E i \in Rows, t \in Cols : M[i][t] # 1
    /\ \E a \in DOMAIN dists, b \in DOMAIN dists :
          a # b /\ IsFin(dists[a][b]) /\ dists[a][b] # Fin(0)

\* C7: cells that are not observed contribute nothing to distances: the matrix
\* computed before the caller stored other samples in unobserved cells (of code
\* 0 or 2) is the matrix distances computes for the tensor as it is now.
C7_UnobservedCellsDoNotMatter ==
    HaveDists => dists = DistancesResult(Z, M, nn_type)

\* An unobserved cell holds samples that would change the matrix if the cell
\* were observed.
C7_Witness ==
    /\ HaveDists
    /\ \E i \in Rows, t \in Cols :
          /\ M[i][t] = 2
          /\ dists # DistancesResult(Z, [M EXCEPT ![i][t] = 1], nn_type)

\* C8: for eta < eta2 the neighbor set estimate computes at eta is a subset of
\* the one at eta2, and the neighbor count estimate returns for the requested
\* index at eta is at most the one it returns at eta2.
C8_NeighborCountMonotoneInEta ==
    (Requested /\ ret_nn) =>
        \A eta2 \in Etas :
            (Leq(eta, eta2) /\ eta # eta2) =>
                LET out2 == EstimateOutcome(Z, M, eta2, inds, dists, ret_nn, nn_type)
                    i == inds[1][1]
                    j == inds[1][2]
                IN /\ \A k \in DOMAIN dists : frame.t_nn[k] => out2.frame.t_nn[k]
                   /\ raised = "none" /\ out2.raised = "none"
                   /\ ret.kind = "tuple" /\ out2.ret.kind = "tuple"
                   /\ Leq(ret.nn_count[i][j], out2.ret.nn_count[i][j])

\* C9: a call of distances, estimate or avg_error leaves the caller's Z and M
\* and the instance's configuration as they were, and only distances replaces
\* the distance matrix the caller holds.
C9_CallsLeaveArgumentsUnchanged ==
    [][call' # call =>
          /\ Z' = Z /\ M' = M /\ nn_type' = nn_type
          /\ (call' # "distances" => dists' = dists)]_vars

\* Three calls in a row on a tensor that has cells to mask.
C9_Witness ==
    /\ call = "avg_error"
    /\ HaveDists
    /\ \E i \in Rows, t \in Cols : M[i][t] # 1
    /\ \E i \in Rows, t \in Cols : M[i][t] = 1

\* C10: two entries that share no jointly observed cell have a not-a-number
\* distance, neither is in the other's neighborhood at any eta, and estimate
\* raises no error.
C10_NoJointCellIsSilentlyExcluded ==
    HaveDists =>
        \A a \in DOMAIN dists, b \in DOMAIN dists :
            (a # b /\ JointlyObserved(a, b) = {}) =>
                /\ IsNaN(dists[a][b])
                /\ \A e \in Etas : ~Neighborhoods(dists, e)[a][b]
                /\ (call = "estimate" => raised = "none")

====
